---- MODULE Spec2Model ----
(***************************************************************************)
(* A model of the two conversion pipelines of the repository:              *)
(*   pipeline B, scripts/lookuptable.py     (HMM state lookup table)       *)
(*   pipeline A, scripts/convert_rwthasr.py (CART examples -> samples)     *)
(* Both are single-threaded batch programs.  Their input files are read    *)
(* record by record; a record is drawn from a bounded set by the action    *)
(* that consumes it.  A failed assertion or an uncaught exception ends the *)
(* run (pc = "aborted").                                                   *)
(***************************************************************************)
EXTENDS Integers, Sequences, FiniteSets, TLC

(***************************************************************************)
(* Bounds of the model.                                                    *)
(***************************************************************************)
\* highest HMM state number (1-based) a state name of the log carries
MaxState == 2
\* lines of the state log
MaxLogLines == 2
\* descriptor lines of the allophone-state list
MaxDescriptors == 2

VARIABLES
  \* ---- pipeline B (lookuptable.py) ----
  ci_phones,      \* main: ci_phones, the list of -c, as a set
  empty_context,  \* opts.empty_context, also AllophoneState.empty_context
  state_syms,     \* SymbolTable.dict_ of the state symbol table
  center_idx_,    \* HmmStateModels.center_idx_: list (by state) of dicts
  models_,        \* HmmStateModels.models_: list of dicts index -> (L, R)
  log,            \* history: the state-log lines _addModel has stored
  history,        \* history: per processed descriptor, its line and lookups
  stdout,         \* lines printed by main, in order
  stderr,         \* [WARNING] / [ERROR] lines written by main, in order
  pc,             \* "parse", "lookup", "done" or "aborted"
  \* ---- pipeline A (convert_rwthasr.py) ----
  opts,           \* the options: wordboundary, ci_phones, empty_context, boundary
  symbols,        \* the phone SymbolTable: its symbols_ and keys_
  examples,       \* handler.examples: the examples handed to setExample so far
  samples,        \* the Samples object: samples, use_word_boundary
  converter,      \* the SymbolConverter object
  samples_file,   \* the samples output file: whether opened, and its lines
  questions,      \* Questions.questions of center_questions
  pcA             \* the place main has reached

varsB == <<ci_phones, empty_context, state_syms, center_idx_, models_, log,
           history, stdout, stderr, pc>>

varsA == <<opts, symbols, examples, samples, converter, samples_file,
           questions, pcA>>

vars == <<varsB, varsA>>

(***************************************************************************)
(* Helpers.                                                                *)
(***************************************************************************)
ToSet(s) == {s[i] : i \in DOMAIN s}

\* dict.get(key, default)
DictGet(d, k, default) == IF k \in DOMAIN d THEN d[k] ELSE default

\* d[k] = v
DictPut(d, k, v) == [x \in (DOMAIN d) \cup {k} |-> IF x = k THEN v ELSE d[x]]

EmptyDict == <<>>

(***************************************************************************)
(* Inputs of pipeline B.                                                   *)
(***************************************************************************)
\* A state name "<center>_<n>.<suffix>" is modelled by the two groups the
\* regular expression name_re extracts: <<center, n>>; the suffix is matched
\* and dropped.  State numbers are 1-based in the log.
StateNames == {"a", "b"} \X (1..MaxState)

NameIndex(name) == (name[2] - 1) * 2 + (IF name[1] = "a" THEN 0 ELSE 1)

\* The state symbol tables tried: `reserved` symbols (.eps, .wb, ...) come
\* first with keys 0..reserved-1, then the first `n` state names in order.
SymbolTableOf(reserved, n) ==
  [name \in {x \in StateNames : NameIndex(x) < n} |-> reserved + NameIndex(name)]

StateSymbolTables ==
  {SymbolTableOf(r, Cardinality(StateNames) - 1) : r \in {1, 2}}

\* the phone lists between the braces of a state-log line, after split()
ContextLists == {<<>>, <<"si">>, <<"a">>, <<"a", "b">>}

CenterLists == {<<"a">>, <<"b">>, <<"si">>, <<"a", "b">>}

\* the state-log lines of SpecLog
LogLines ==
  [name : StateNames, left : ContextLists, center : CenterLists,
   right : ContextLists]

\* the state-log lines of SpecB: fewer contexts, and a log that lists a
\* boundary-marked center phone
LookupLogLines ==
  {ln \in [name : StateNames, left : {<<"si">>, <<"a">>},
           center : {<<"a">>, <<"si">>, <<"a@i">>},
           right : {<<"si">>, <<"a">>}] : ln.left = ln.right}

\* A descriptor line "<center>{<left>+<right>}[@i][@f].<state>", modelled by
\* the six groups symbol_re extracts ("" for an optional group that is absent).
\* The context of a descriptor of the context-independent phone "si" is not
\* varied: main does not read it.
Descriptors ==
  {d \in [center : {"a", "si"}, left : {"si", "a"}, right : {"#", "a"},
          i : {"", "@i"}, f : {"", "@f"}, state : 0..(MaxState - 1)] :
     /\ d.i = "" => d.f = ""
     /\ d.center = "si" => (d.left = "si" /\ d.right = "#" /\ d.f = "")}

(***************************************************************************)
(* SymbolTable (lookuptable.py)                                            *)
(***************************************************************************)
SymbolTable_find(dict_, symbol) == DictGet(dict_, symbol, -1)

(***************************************************************************)
(* HmmStateModels                                                          *)
(***************************************************************************)
\* the while loop of _addHmmIndex: append {} until len(center_idx_) > state
RECURSIVE ExtendCenterIdx(_, _)
ExtendCenterIdx(cidx, state) ==
  IF Len(cidx) <= state THEN ExtendCenterIdx(Append(cidx, EmptyDict), state)
  ELSE cidx

\* the for loop of _addHmmIndex over center_phones, on the dict of one state
RECURSIVE IndexCenters(_, _, _)
IndexCenters(d, center_phones, idx) ==
  IF center_phones = <<>> THEN d
  ELSE LET c == Head(center_phones)
           d1 == IF c \notin DOMAIN d THEN DictPut(d, c, <<>>) ELSE d
       IN IndexCenters(DictPut(d1, c, Append(d1[c], idx)),
                       Tail(center_phones), idx)

\* _addHmmIndex: the new center_idx_, the new models_ and the group index.
\* Python lists are 0-based; a group index idx is kept as in Python and the
\* group is models_[idx + 1] here; the dict of state s is center_idx_[s + 1].
addHmmIndex(cidx, models, center_phones, state) ==
  LET c1 == ExtendCenterIdx(cidx, state)
      idx == Len(models)
  IN [center_idx |-> [c1 EXCEPT ![state + 1] =
                         IndexCenters(c1[state + 1], center_phones, idx)],
      models |-> Append(models, EmptyDict),
      idx |-> idx]

\* mutant of StoredContext: a side is collapsed only when both sides are
\* context-independent
StoredContextBothSides(context, ci, empty) ==
  LET left0 == ToSet(context[1])
      right0 == ToSet(context[3])
      both == left0 \subseteq ci /\ right0 \subseteq ci
  IN IF ToSet(context[2]) \subseteq ci THEN <<{}, {}>>
     ELSE IF both THEN <<empty, empty>> ELSE <<left0, right0>>

\* the context pair _addModel stores (lines 79-86)
StoredContext(context, ci, empty) ==
  LET left0 == ToSet(context[1])
      right0 == ToSet(context[3])
      left1 == IF left0 \subseteq ci THEN empty ELSE left0
      right1 == IF right0 \subseteq ci THEN empty ELSE right0
  IN IF ToSet(context[2]) \subseteq ci THEN <<{}, {}>> ELSE <<left1, right1>>

\* one model of a group against a query (the if / elif of find)
MatchModel(left, right, model) ==
  IF ~(left # "" \/ right # "" \/ model[1] # {} \/ model[2] # {}) THEN TRUE
  ELSE left \in model[1] /\ right \in model[2]

Returned(v) == [kind |-> "return", value |-> v]

Raised(e) == [kind |-> e, value |-> -1]

\* the body of the inner loop of find for model m of a group
FindStep(left, right, model, m, acc) ==
  IF acc.kind # "return" THEN acc
  ELSE IF MatchModel(left, right, model)
       THEN IF acc.value < 0 THEN Returned(m) ELSE Raised("AssertionError")
       ELSE acc

\* for m in models: ... (a group holds at most one model, see AddModel)
RECURSIVE FindInGroup(_, _, _, _, _)
FindInGroup(left, right, models, keys, acc) ==
  IF keys = {} THEN acc
  ELSE LET m == CHOOSE k \in keys : \A k2 \in keys : k <= k2
       IN FindInGroup(left, right, models, keys \ {m},
                      FindStep(left, right, models[m], m, acc))

\* for i in idx: ...
RECURSIVE FindInGroups(_, _, _, _, _)
FindInGroups(left, right, models, idx, acc) ==
  IF idx = <<>> THEN acc
  ELSE LET g == models[Head(idx) + 1]
       IN FindInGroups(left, right, models, Tail(idx),
                       FindInGroup(left, right, g, DOMAIN g, acc))

\* HmmStateModels.find on the tables cidx / models: what the call returns or
\* raises.  center_idx_[state] raises IndexError for state >= len (state is
\* never negative: it is read by [0-9]+).
find(cidx, models, left, center, right, state) ==
  IF state >= Len(cidx) THEN Raised("IndexError")
  ELSE FindInGroups(left, right, models,
                    DictGet(cidx[state + 1], center, <<>>), Returned(-1))

(***************************************************************************)
(* AllophoneState                                                          *)
(***************************************************************************)
\* _parseSymbol on the groups of symbol_re
parseSymbol(items, empty) ==
  [center |-> items.center,
   context |-> <<IF items.left = "#" THEN empty ELSE items.left,
                 IF items.right = "#" THEN empty ELSE items.right>>,
   initial |-> (items.i = "@i"),
   final |-> (items.f = "@f"),
   state |-> items.state]

\* mutant of phoneSymbol: the markers are not appended
phoneSymbolUnmarked(a) == a.center

phoneSymbol(a) ==
  LET s1 == IF a.initial THEN a.center \o "@i" ELSE a.center
  IN IF a.final THEN s1 \o "@f" ELSE s1

(***************************************************************************)
(* main of lookuptable.py                                                  *)
(***************************************************************************)
Query(l, c, r, s) == [left |-> l, center |-> c, right |-> r, state |-> s]

Lookup(q, res) == [query |-> q, result |-> res]

DoFind(q) == find(center_idx_, models_, q.left, q.center, q.right, q.state)

\* mutant of ReportResult: model index 0 is taken for a miss
ReportResultOffByOne(line, m) ==
  IF m <= 0
  THEN [out |-> <<>>, err |-> <<[tag |-> "ERROR", line |-> line]>>]
  ELSE [out |-> <<[line |-> line, m |-> m]>>, err |-> <<>>]

\* lines 177-180: what main writes for `line` once its lookups ended with m
ReportResult(line, m) ==
  IF m < 0
  THEN [out |-> <<>>, err |-> <<[tag |-> "ERROR", line |-> line]>>]
  ELSE [out |-> <<[line |-> line, m |-> m]>>, err |-> <<>>]

\* the first lookup of a descriptor (lines 168-171)
FirstQuery(a, ci) ==
  IF a.center \in ci
  THEN Query("", a.center, "", a.state)
  ELSE Query(a.context[1], phoneSymbol(a), a.context[2], a.state)

\* whether main looks a descriptor up again after a miss (line 175)
Retries(a) == a.initial \/ a.final

\* One iteration of the loop over the allophone-state list (lines 167-180):
\* the lookups it makes, what it writes, and whether a lookup raised.
MainLoopBody(line) ==
  LET a == parseSymbol(line, empty_context)
      q1 == FirstQuery(a, ci_phones)
      r1 == DoFind(q1)
      q2 == Query(q1.left, a.center, q1.right, a.state)
      r2 == DoFind(q2)
      warning == <<[tag |-> "WARNING", line |-> line]>>
  IN IF r1.kind # "return"
     THEN [lookups |-> <<Lookup(q1, r1)>>, out |-> <<>>, err |-> <<>>,
           raised |-> TRUE]
     ELSE IF r1.value >= 0
     THEN [lookups |-> <<Lookup(q1, r1)>>,
           out |-> ReportResult(line, r1.value).out,
           err |-> ReportResult(line, r1.value).err, raised |-> FALSE]
     ELSE IF ~Retries(a)
     THEN [lookups |-> <<Lookup(q1, r1)>>,
           out |-> ReportResult(line, r1.value).out,
           err |-> warning \o ReportResult(line, r1.value).err,
           raised |-> FALSE]
     ELSE IF r2.kind # "return"
     THEN [lookups |-> <<Lookup(q1, r1), Lookup(q2, r2)>>, out |-> <<>>,
           err |-> warning, raised |-> TRUE]
     ELSE [lookups |-> <<Lookup(q1, r1), Lookup(q2, r2)>>,
           out |-> ReportResult(line, r2.value).out,
           err |-> warning \o ReportResult(line, r2.value).err,
           raised |-> FALSE]

(***************************************************************************)
(* Pipeline B as a state machine.                                          *)
(***************************************************************************)
\* pipeline A is not running
IdleA ==
  /\ opts = <<>>
  /\ symbols = <<>>
  /\ examples = <<>>
  /\ samples = <<>>
  /\ converter = <<>>
  /\ samples_file = <<>>
  /\ questions = <<>>
  /\ pcA = "idle"

\* main up to parseLogFile: the options and the state symbol table are read.
\* SpecB runs with the default -e si and with -c si.
InitB ==
  /\ ci_phones = {"si"}
  /\ empty_context = "si"
  /\ state_syms \in StateSymbolTables
  /\ center_idx_ = <<>>
  /\ models_ = <<>>
  /\ log = <<>>
  /\ history = <<>>
  /\ stdout = <<>>
  /\ stderr = <<>>
  /\ pc = "parse"
  /\ IdleA

\* SpecLog varies the options and reads the richer state log.
InitLog ==
  /\ ci_phones \in {{"si"}, {"si", "b"}}
  /\ empty_context \in {"si", "b"}
  /\ state_syms = SymbolTableOf(2, Cardinality(StateNames) - 1)
  /\ center_idx_ = <<>>
  /\ models_ = <<>>
  /\ log = <<>>
  /\ history = <<>>
  /\ stdout = <<>>
  /\ stderr = <<>>
  /\ pc = "parse"
  /\ IdleA

\* parseLogFile reads one line: _addModel(name, context)
AddModel(line) ==
  /\ pc = "parse"
  /\ Len(log) < MaxLogLines
  /\ LET state == line.name[2] - 1
         h == addHmmIndex(center_idx_, models_, line.center, state)
         model_idx == SymbolTable_find(state_syms, line.name)
         ctx == StoredContext(<<line.left, line.center, line.right>>,
                              ci_phones, {empty_context})
     IN /\ center_idx_' = h.center_idx
        /\ IF model_idx > 0
           THEN /\ models_' = [h.models EXCEPT ![h.idx + 1] =
                                 DictPut(@, model_idx - 2, ctx)]
                /\ log' = Append(log, line)
                /\ pc' = pc
           ELSE /\ models_' = h.models
                /\ log' = log
                /\ pc' = "aborted"
  /\ UNCHANGED <<ci_phones, empty_context, state_syms, history, stdout, stderr>>
  /\ UNCHANGED varsA

ParseLogLine == \E line \in LogLines : AddModel(line)

ParseLookupLogLine == \E line \in LookupLogLines : AddModel(line)

\* the log file is exhausted: main goes on to the allophone-state list
EndOfLog ==
  /\ pc = "parse"
  /\ pc' = "lookup"
  /\ UNCHANGED <<ci_phones, empty_context, state_syms, center_idx_, models_,
                 log, history, stdout, stderr>>
  /\ UNCHANGED varsA

\* main reads one non-blank, non-comment line of the allophone-state list
ProcessDescriptor(line) ==
  /\ pc = "lookup"
  /\ Len(history) < MaxDescriptors
  /\ LET b == MainLoopBody(line)
     IN /\ history' = Append(history, [line |-> line, lookups |-> b.lookups])
        /\ stdout' = stdout \o b.out
        /\ stderr' = stderr \o b.err
        /\ pc' = IF b.raised THEN "aborted" ELSE pc
  /\ UNCHANGED <<ci_phones, empty_context, state_syms, center_idx_, models_,
                 log>>
  /\ UNCHANGED varsA

ReadDescriptor == \E line \in Descriptors : ProcessDescriptor(line)

\* the allophone-state list is exhausted
EndOfList ==
  /\ pc = "lookup"
  /\ pc' = "done"
  /\ UNCHANGED <<ci_phones, empty_context, state_syms, center_idx_, models_,
                 log, history, stdout, stderr>>
  /\ UNCHANGED varsA

NextB == ParseLookupLogLine \/ EndOfLog \/ ReadDescriptor \/ EndOfList

SpecB == InitB /\ [][NextB]_vars

NextLog == ParseLogLine \/ EndOfLog

SpecLog == InitLog /\ [][NextLog]_vars

(***************************************************************************)
(* Pipeline A: convert_rwthasr.py.  A phone symbol is a Python string,     *)
(* modelled as the sequence of its characters, so that "@i" in s,          *)
(* s.split("@") and s += "@i" are computed on the text.                    *)
(***************************************************************************)
\* samples an example list holds
MaxExamples == 2
\* columns of an example's matrix
MaxDim == 2

\* sub in s
Contains(s, sub) ==
  \E i \in 0..(Len(s) - Len(sub)) : SubSeq(s, i + 1, i + Len(sub)) = sub

\* s.split(ch)[0]
RECURSIVE BeforeFirst(_, _)
BeforeFirst(s, ch) ==
  IF s = <<>> \/ Head(s) = ch THEN <<>>
  ELSE <<Head(s)>> \o BeforeFirst(Tail(s), ch)

MarkI == <<"@", "i">>

MarkF == <<"@", "f">>

Ph_a == <<"a">>

Ph_b == <<"b">>

Ph_si == <<"s", "i">>

Ph_hash == <<"#">>

Ph_eps == <<".", "e", "p", "s">>

\* the symbols the phone symbol files are made of, in file order
PhoneUniverse ==
  <<Ph_si, Ph_a, Ph_a \o MarkI, Ph_a \o MarkF, Ph_a \o MarkI \o MarkF, Ph_b,
    Ph_b \o MarkI>>


\* a phone symbol file: ".eps 0", then the symbols of S with keys 1, 2, ...
PhoneFileOf(S) ==
  LET syms == SelectSeq(PhoneUniverse, LAMBDA x : x \in S)
  IN <<<<Ph_eps, 0>>>> \o [i \in 1..Len(syms) |-> <<syms[i], i>>]

PhoneFiles ==
  {PhoneFileOf({Ph_a, Ph_a \o MarkI, Ph_a \o MarkF, Ph_b})}
  \cup {PhoneFileOf({Ph_si, Ph_a, Ph_b} \cup M) :
          M \in SUBSET {Ph_a \o MarkI, Ph_a \o MarkF, Ph_a \o MarkI \o MarkF,
                        Ph_b \o MarkI}}

\* int() of a property value
StrToInt == [x \in {"0", "1", "2"} |-> CASE x = "0" -> 0 [] x = "1" -> 1 [] x = "2" -> 2]

DataTokens == <<"0.5", "1.5", "2.5", "3.5", "4.5">>

\* <<nColumns, nRows, number of matrix tokens>> of an example: well-formed
\* matrices of every width, one with a token missing, one with three rows
MatrixShapes ==
  {<<n, 2, 2 * n>> : n \in 1..MaxDim}
  \cup {<<MaxDim, 2, 2 * MaxDim - 1>>, <<1, 3, 3>>}

BoundaryValues ==
  {"begin-of-lemma", "end-of-lemma", "single-phoneme-lemma", "within-lemma"}

\* the Example records ExampleListParser builds
Examples ==
  {[properties |-> ("central" :> c @@ "hmm-state" :> "0" @@ "history[0]" :> h
                    @@ "future[0]" :> Ph_hash @@ "boundary" :> b),
    nobs |-> 1, ncol |-> sh[1], nrows |-> sh[2],
    data |-> SubSeq(DataTokens, 1, sh[3])] :
     c \in {Ph_a, Ph_si}, h \in {Ph_hash, Ph_b}, b \in BoundaryValues,
     sh \in MatrixShapes}

(***************************************************************************)
(* SymbolTable (convert_rwthasr.py)                                        *)
(***************************************************************************)
RECURSIVE PhoneSymbolTable_read(_, _)
PhoneSymbolTable_read(t, lines) ==
  IF lines = <<>> THEN t
  ELSE LET symbol == Head(lines)[1]
           key == Head(lines)[2]
       IN PhoneSymbolTable_read(
            IF key = 0 THEN t
            ELSE [symbols_ |-> DictPut(t.symbols_, key, symbol),
                  keys_ |-> DictPut(t.keys_, symbol, key)],
            Tail(lines))

PhoneSymbolTable_find(t, symbol) ==
  IF symbol \notin DOMAIN t.keys_ THEN -1 ELSE t.keys_[symbol]

\* dict.values(): CPython 2 walks a dict of small int keys in key order
RECURSIVE DictValues(_)
DictValues(d) ==
  IF DOMAIN d = {} THEN <<>>
  ELSE LET k == CHOOSE x \in DOMAIN d : \A y \in DOMAIN d : x <= y
       IN <<d[k]>> \o DictValues([x \in (DOMAIN d) \ {k} |-> d[x]])

PhoneSymbolTable_symbols(t) == DictValues(t.symbols_)

(***************************************************************************)
(* Sample, Samples                                                         *)
(***************************************************************************)
Sample(phone, state, left_ctxt, right_ctxt) ==
  [phone |-> phone, state |-> state, left_context |-> left_ctxt,
   right_context |-> right_ctxt, initial |-> FALSE, final |-> FALSE,
   weight |-> 0, sum |-> <<>>, sum2 |-> <<>>]

\* data[a:b] of a Python list
Slice(data, a, b) ==
  LET lo == IF a > Len(data) THEN Len(data) ELSE a
      hi == IF b > Len(data) THEN Len(data) ELSE b
  IN SubSeq(data, lo + 1, hi)

\* Sample.setData: the sample afterwards, and whether every assert held
setData(sample, nobs, ncol, nrow, data) ==
  LET dim == ncol
      s1 == [sample EXCEPT !.weight = nobs]
      s2 == [s1 EXCEPT !.sum = Slice(data, 0, dim),
                       !.sum2 = Slice(data, dim, Len(data))]
  IN IF nrow # 2 THEN [ok |-> FALSE, sample |-> s1]
     ELSE [ok |-> Len(s2.sum) = dim /\ Len(s2.sum2) = dim, sample |-> s2]

\* mutant of BoundaryFlags: single-phoneme-lemma sets initial only
BoundaryFlagsSingleInitialOnly(use_wb, boundary) ==
  IF use_wb
  THEN IF boundary = "begin-of-lemma" \/ boundary = "single-phoneme-lemma"
       THEN [initial |-> TRUE, final |-> FALSE]
       ELSE IF boundary = "end-of-lemma" THEN [initial |-> FALSE, final |-> TRUE]
            ELSE [initial |-> FALSE, final |-> FALSE]
  ELSE [initial |-> FALSE, final |-> FALSE]

\* the boundary flags Samples.setExample sets (lines 224-231)
BoundaryFlags(use_wb, boundary) ==
  IF use_wb
  THEN IF boundary = "begin-of-lemma" THEN [initial |-> TRUE, final |-> FALSE]
       ELSE IF boundary = "end-of-lemma" THEN [initial |-> FALSE, final |-> TRUE]
       ELSE IF boundary = "single-phoneme-lemma"
            THEN [initial |-> TRUE, final |-> TRUE]
            ELSE [initial |-> FALSE, final |-> FALSE]
  ELSE [initial |-> FALSE, final |-> FALSE]

\* Samples.setExample up to the append
setExample(use_wb, example) ==
  LET p == example.properties
      s0 == Sample(p["central"], StrToInt[p["hmm-state"]],
                   <<p["history[0]"]>>, <<p["future[0]"]>>)
      fl == BoundaryFlags(use_wb, p["boundary"])
      s1 == [s0 EXCEPT !.initial = fl.initial, !.final = fl.final]
  IN setData(s1, example.nobs, example.ncol, example.nrows, example.data)

\* mutant of getGlobalProperties: the sum vectors are not compared
getGlobalPropertiesNoDimCheck(ss) ==
  IF ss = <<>> THEN [ok |-> FALSE, dim |-> 0, nl |-> 0, nr |-> 0]
  ELSE LET dim == Len(ss[1].sum)
           nl == Len(ss[1].left_context)
           nr == Len(ss[1].right_context)
       IN [ok |-> \A i \in DOMAIN ss :
                    /\ Len(ss[i].left_context) = nl
                    /\ Len(ss[i].right_context) = nr,
           dim |-> dim, nl |-> nl, nr |-> nr]

\* Samples.getGlobalProperties: IndexError on an empty list, AssertionError
\* when a sample differs from the first
getGlobalProperties(ss) ==
  IF ss = <<>> THEN [ok |-> FALSE, dim |-> 0, nl |-> 0, nr |-> 0]
  ELSE LET dim == Len(ss[1].sum)
           nl == Len(ss[1].left_context)
           nr == Len(ss[1].right_context)
       IN [ok |-> \A i \in DOMAIN ss :
                    /\ Len(ss[i].sum) = dim
                    /\ Len(ss[i].left_context) = nl
                    /\ Len(ss[i].right_context) = nr,
           dim |-> dim, nl |-> nl, nr |-> nr]

\* the line writeSample writes for s
SampleLine(s) ==
  <<s.phone, s.state>> \o s.left_context \o s.right_context \o <<s.weight>>
  \o s.sum \o s.sum2

\* Samples.write: the file afterwards, and whether write returned
Samples_write(ss, file) ==
  LET g == getGlobalProperties(ss)
  IN IF ~g.ok THEN [ok |-> FALSE, file |-> file]
     ELSE [ok |-> TRUE,
           file |-> [opened |-> TRUE,
                     lines |-> <<<<1, g.dim, g.nl, g.nr>>>>
                               \o [i \in DOMAIN ss |-> SampleLine(ss[i])]]]

(***************************************************************************)
(* SymbolConverter                                                         *)
(***************************************************************************)
NewSymbolConverter ==
  [mapping |-> <<>>, initial_phones |-> {}, final_phones |-> {},
   phone_classes |-> <<>>, use_word_boundary |-> FALSE, non_wb |-> {}]

\* mutant of setSymbolsStep: every symbol with a marker is an initial phone
setSymbolsStepAnyMarker(conv, s) ==
  LET basePhone == BeforeFirst(s, "@")
      c1 == [conv EXCEPT
               !.initial_phones = IF Contains(s, <<"@">>) THEN @ \cup {s} ELSE @,
               !.final_phones = IF Contains(s, MarkF) THEN @ \cup {s} ELSE @]
      pc0 == IF basePhone \notin DOMAIN c1.phone_classes
             THEN DictPut(c1.phone_classes, basePhone, <<>>)
             ELSE c1.phone_classes
  IN IF basePhone # s
     THEN [c1 EXCEPT !.phone_classes =
                        DictPut(pc0, basePhone, Append(pc0[basePhone], s))]
     ELSE c1

\* the body of the loop of setSymbols for symbol s
setSymbolsStep(conv, s) ==
  LET basePhone == BeforeFirst(s, "@")
      c1 == [conv EXCEPT
               !.initial_phones = IF Contains(s, MarkI) THEN @ \cup {s} ELSE @,
               !.final_phones = IF Contains(s, MarkF) THEN @ \cup {s} ELSE @]
      pc0 == IF basePhone \notin DOMAIN c1.phone_classes
             THEN DictPut(c1.phone_classes, basePhone, <<>>)
             ELSE c1.phone_classes
  IN IF basePhone # s
     THEN [c1 EXCEPT !.phone_classes =
                        DictPut(pc0, basePhone, Append(pc0[basePhone], s))]
     ELSE c1

RECURSIVE setSymbolsLoop(_, _)
setSymbolsLoop(conv, syms) ==
  IF syms = <<>> THEN conv
  ELSE setSymbolsLoop(setSymbolsStep(conv, Head(syms)), Tail(syms))

setSymbols(conv, table) == setSymbolsLoop(conv, PhoneSymbolTable_symbols(table))

setUseWordBoundary(conv, use_wb, nonwb) ==
  [conv EXCEPT !.use_word_boundary = use_wb,
               !.non_wb = nonwb,
               !.initial_phones = @ \cup nonwb,
               !.final_phones = @ \cup nonwb]

mapSymbol(conv, from_sym, to_sym) ==
  [conv EXCEPT !.mapping = DictPut(@, from_sym, to_sym)]

convertSymbols(conv, arr) ==
  [i \in DOMAIN arr |->
     IF arr[i] \in DOMAIN conv.mapping THEN conv.mapping[arr[i]] ELSE arr[i]]

isExcluded(conv, sample) == sample.phone \in conv.non_wb

\* mutant of mapWordBoundaryPhone: the final marker is not appended
mapWordBoundaryPhoneInitialOnly(conv, table, sample) ==
  LET p1 == IF sample.initial THEN sample.phone \o MarkI ELSE sample.phone
  IN [ok |-> PhoneSymbolTable_find(table, p1) > 0,
      sample |-> [sample EXCEPT !.phone = p1]]

\* mapWordBoundaryPhone: the sample afterwards, and whether the assert held
mapWordBoundaryPhone(conv, table, sample) ==
  LET p1 == IF sample.initial THEN sample.phone \o MarkI ELSE sample.phone
      p2 == IF sample.final THEN p1 \o MarkF ELSE p1
  IN [ok |-> PhoneSymbolTable_find(table, p2) > 0,
      sample |-> [sample EXCEPT !.phone = p2]]

\* the body of the loop of convertContextSymbols for sample s
convertSample(conv, table, s) ==
  LET m == IF conv.use_word_boundary /\ ~isExcluded(conv, s)
           THEN mapWordBoundaryPhone(conv, table, s)
           ELSE [ok |-> TRUE, sample |-> s]
  IN IF ~m.ok THEN m
     ELSE [ok |-> TRUE,
           sample |-> [m.sample EXCEPT
                         !.left_context = convertSymbols(conv, @),
                         !.right_context = convertSymbols(conv, @)]]

\* convertContextSymbols: the samples are converted in place, in order, up to
\* the first failed assert
RECURSIVE convertContextSymbols(_, _, _)
convertContextSymbols(conv, table, ss) ==
  IF ss = <<>> THEN [ok |-> TRUE, samples |-> <<>>]
  ELSE LET r == convertSample(conv, table, Head(ss))
       IN IF ~r.ok THEN [ok |-> FALSE, samples |-> <<r.sample>> \o Tail(ss)]
          ELSE LET rest == convertContextSymbols(conv, table, Tail(ss))
               IN [ok |-> rest.ok, samples |-> <<r.sample>> \o rest.samples]

(***************************************************************************)
(* Questions                                                               *)
(***************************************************************************)
\* mutant of setInitialFinal: the final phones are not taken out of is_within
setInitialFinalInitialOnly(q, initial, final, all) ==
  DictPut(DictPut(DictPut(q, "is_initial", initial), "is_final", final),
          "is_within", SelectSeq(all, LAMBDA ph : ph \notin initial))

\* setInitialFinal: is_initial and is_final are the sets themselves,
\* is_within is a list
setInitialFinal(q, initial, final, all) ==
  LET boundary == initial \cup final
  IN DictPut(DictPut(DictPut(q, "is_initial", initial), "is_final", final),
             "is_within", SelectSeq(all, LAMBDA ph : ph \notin boundary))

(***************************************************************************)
(* Pipeline A as a state machine: main of convert_rwthasr.py.              *)
(***************************************************************************)
\* pipeline B is not running
IdleB ==
  /\ ci_phones = {}
  /\ empty_context = ""
  /\ state_syms = <<>>
  /\ center_idx_ = <<>>
  /\ models_ = <<>>
  /\ log = <<>>
  /\ history = <<>>
  /\ stdout = <<>>
  /\ stderr = <<>>
  /\ pc = "idle"

\* main up to the loop over the examples: the options are read (-e and -b are
\* left at their defaults), the phone symbol table is read
InitA ==
  /\ opts \in [wordboundary : BOOLEAN, ci_phones : {<<Ph_si>>, <<Ph_si, Ph_b>>},
              empty_context : {Ph_hash}, boundary : {Ph_si}]
  /\ \E f \in PhoneFiles :
       symbols = PhoneSymbolTable_read([symbols_ |-> <<>>, keys_ |-> <<>>], f)
  /\ examples = <<>>
  /\ samples = [samples |-> <<>>, use_word_boundary |-> opts.wordboundary]
  /\ converter = NewSymbolConverter
  /\ samples_file = [opened |-> FALSE, lines |-> <<>>]
  /\ questions = <<>>
  /\ pcA = "examples"
  /\ IdleB

\* samples.setExample(e) for the next example of the list
SetExample(example) ==
  /\ pcA = "examples"
  /\ Len(samples.samples) < MaxExamples
  /\ examples' = Append(examples, example)
  /\ LET r == setExample(samples.use_word_boundary, example)
     IN IF r.ok
        THEN /\ samples' = [samples EXCEPT !.samples = Append(@, r.sample)]
             /\ pcA' = pcA
        ELSE /\ samples' = samples
             /\ pcA' = "aborted in setExample"
  /\ UNCHANGED <<opts, symbols, converter, samples_file, questions>>
  /\ UNCHANGED varsB

NextExample == \E example \in Examples : SetExample(example)

\* the example list is exhausted: converter.setSymbols(symbols)
SetSymbols ==
  /\ pcA = "examples"
  /\ converter' = setSymbols(converter, symbols)
  /\ pcA' = "setUseWordBoundary"
  /\ UNCHANGED <<opts, symbols, examples, samples, samples_file, questions>>
  /\ UNCHANGED varsB

\* converter.setUseWordBoundary(...) and converter.mapSymbol(...)
SetUseWordBoundary ==
  /\ pcA = "setUseWordBoundary"
  /\ converter' = mapSymbol(setUseWordBoundary(converter, opts.wordboundary,
                                               ToSet(opts.ci_phones)),
                            opts.empty_context, opts.boundary)
  /\ pcA' = "convertContextSymbols"
  /\ UNCHANGED <<opts, symbols, examples, samples, samples_file, questions>>
  /\ UNCHANGED varsB

ConvertContextSymbols ==
  /\ pcA = "convertContextSymbols"
  /\ LET r == convertContextSymbols(converter, symbols, samples.samples)
     IN /\ samples' = [samples EXCEPT !.samples = r.samples]
        /\ pcA' = IF r.ok THEN "write" ELSE "aborted in convertContextSymbols"
  /\ UNCHANGED <<opts, symbols, examples, converter, samples_file, questions>>
  /\ UNCHANGED varsB

\* samples.write(...); without -w main ends here
Write ==
  /\ pcA = "write"
  /\ LET r == Samples_write(samples.samples, samples_file)
     IN /\ samples_file' = r.file
        /\ pcA' = IF ~r.ok THEN "aborted in write"
                  ELSE IF opts.wordboundary THEN "setInitialFinal" ELSE "done"
  /\ UNCHANGED <<opts, symbols, examples, samples, converter, questions>>
  /\ UNCHANGED varsB

\* center_questions.setInitialFinal(...)
SetInitialFinal ==
  /\ pcA = "setInitialFinal"
  /\ questions' = setInitialFinal(questions, converter.initial_phones,
                                  converter.final_phones,
                                  PhoneSymbolTable_symbols(symbols))
  /\ pcA' = "done"
  /\ UNCHANGED <<opts, symbols, examples, samples, converter, samples_file>>
  /\ UNCHANGED varsB

NextA ==
  \/ NextExample
  \/ SetSymbols
  \/ SetUseWordBoundary
  \/ ConvertContextSymbols
  \/ Write
  \/ SetInitialFinal

SpecA == InitA /\ [][NextA]_vars

(***************************************************************************)
(* Properties of pipeline B.                                               *)
(***************************************************************************)
\* every lookup main has made so far
AllLookups == UNION {ToSet(history[i].lookups) : i \in DOMAIN history}

\* the model groups indexed under the (state, center) key of query q
Candidates(q) ==
  IF q.state < Len(center_idx_)
  THEN ToSet(DictGet(center_idx_[q.state + 1], q.center, <<>>))
  ELSE {}

\* a model (L, R) matches q: L and R empty and no left / right given, or
\* left in L and right in R
ModelMatches(q, model) ==
  \/ model[1] = {} /\ model[2] = {} /\ q.left = "" /\ q.right = ""
  \/ q.left \in model[1] /\ q.right \in model[2]

\* the models under the key of q that match q, as <<group, model index>>
MatchingModels(q) ==
  {gm \in UNION {{<<g, m>> : m \in DOMAIN models_[g + 1]} : g \in Candidates(q)} :
     ModelMatches(q, models_[gm[1] + 1][gm[2]])}

MatchingIndices(q) == {gm[2] : gm \in MatchingModels(q)}

\* every stored model index is >= 0: -1 is not the index of a model
NoNegativeIndex ==
  \A g \in DOMAIN models_ : \A m \in DOMAIN models_[g] : m >= 0

\* C1: find returns for every query, also one for a state or a center phone
\* no model was logged for, the index of a matching model under the
\* (state, center) key, or -1 when none matches.  (A call that ends in the
\* assertion on a second match is left to C2; the log is not empty and every
\* stored model index is non-negative.)
C1_FindReturnsIndexOrMiss ==
  \A lk \in AllLookups :
    (log # <<>> /\ NoNegativeIndex) =>
      /\ lk.result.kind # "IndexError"
      /\ lk.result.kind = "return" =>
           IF MatchingModels(lk.query) = {} THEN lk.result.value = -1
           ELSE lk.result.value \in MatchingIndices(lk.query)

\* The part of C1 the code keeps: a lookup that returns, returns the index of
\* a matching model or, with none matching, -1; and it raises IndexError
\* exactly for a state at or beyond the highest state the log names.
FindReturnsMatchOrMiss ==
  \A lk \in AllLookups :
    /\ lk.result.kind = "return" =>
         IF MatchingModels(lk.query) = {} THEN lk.result.value = -1
         ELSE lk.result.value \in MatchingIndices(lk.query)
    /\ lk.result.kind = "IndexError" <=> lk.query.state >= Len(center_idx_)

\* C2: whenever two or more models under the same (state, center) key match a
\* query, find ends in the assertion and returns no index; so a returned
\* value is the index of the only matching model, or -1.
C2_AmbiguousMatchAborts ==
  \A lk \in AllLookups :
    /\ Cardinality(MatchingModels(lk.query)) >= 2 =>
         lk.result.kind = "AssertionError"
    /\ lk.result.kind = "return" /\ lk.result.value # -1 =>
         /\ Cardinality(MatchingModels(lk.query)) = 1
         /\ MatchingIndices(lk.query) = {lk.result.value}

\* C2 holds of every log that stores no model under index -1
AmbiguousMatchAbortsWithoutMinusOne == NoNegativeIndex => C2_AmbiguousMatchAborts

\* the model index the state symbol table gives the name of a log line
ModelIndexOf(line) == SymbolTable_find(state_syms, line.name) - 2

\* C3: for every state-log line _addModel has stored, the stored (left, right)
\* pair is ({}, {}) when every center phone is a CI phone; otherwise each side
\* independently is the one-element empty-context set when every phone of the
\* side is a CI phone, and the side's own phone set when one is not.
C3_StoredContextCollapsed ==
  \A i \in DOMAIN log :
    LET ln == log[i]
        AllCi(phones) == \A j \in DOMAIN phones : phones[j] \in ci_phones
        Side(phones) == IF AllCi(phones) THEN {empty_context} ELSE ToSet(phones)
    IN /\ DOMAIN models_[i] = {ModelIndexOf(ln)}
       /\ models_[i][ModelIndexOf(ln)] =
            IF AllCi(ln.center) THEN <<{}, {}>>
            ELSE <<Side(ln.left), Side(ln.right)>>

\* a log of two lines: a non-CI center whose left side only is collapsed, and
\* a CI center
C3_Witness ==
  /\ Len(log) = 2
  /\ \E j \in DOMAIN log[1].center : log[1].center[j] \notin ci_phones
  /\ log[1].left # <<>>
  /\ ToSet(log[1].left) \subseteq ci_phones
  /\ ~(ToSet(log[1].right) \subseteq ci_phones)
  /\ models_[1][ModelIndexOf(log[1])] = <<{empty_context}, ToSet(log[1].right)>>
  /\ ToSet(log[2].center) \subseteq ci_phones
  /\ models_[2][ModelIndexOf(log[2])] = <<{}, {}>>

\* the left / right context a descriptor names: "#" is the empty-context phone
NamedContext(x) == IF x = "#" THEN empty_context ELSE x

IsMiss(res) == res.kind = "return" /\ res.value < 0

\* C4: the first lookup of a descriptor is ("", center, "") for a CI center
\* phone and (left, center with its @i / @f markers, right) otherwise; a second
\* lookup, with the unmarked center phone and the same left / right, is made
\* only when the first returned no match and the descriptor carries an initial
\* or final flag; there are never more than two lookups.
C4_LookupsIssued ==
  \A i \in DOMAIN history :
    LET d == history[i].line
        lks == history[i].lookups
        first == IF d.center \in ci_phones
                 THEN Query("", d.center, "", d.state)
                 ELSE Query(NamedContext(d.left), d.center \o d.i \o d.f,
                            NamedContext(d.right), d.state)
    IN /\ Len(lks) \in {1, 2}
       /\ lks[1].query = first
       /\ Len(lks) = 2 =>
            /\ IsMiss(lks[1].result)
            /\ d.i = "@i" \/ d.f = "@f"
            /\ lks[2].query = Query(first.left, d.center, first.right, d.state)

\* a flagged descriptor of a non-CI phone was looked up twice, and the second
\* lookup found a model
C4_Witness ==
  \E i \in DOMAIN history :
    /\ history[i].line.center \notin ci_phones
    /\ history[i].line.i = "@i"
    /\ Len(history[i].lookups) = 2
    /\ history[i].lookups[1].query.center = history[i].line.center \o "@i"
    /\ history[i].lookups[2].result.kind = "return"
    /\ history[i].lookups[2].result.value >= 0

RECURSIVE Concat(_)
Concat(ss) == IF ss = <<>> THEN <<>> ELSE Head(ss) \o Concat(Tail(ss))

LastLookup(h) == h.lookups[Len(h.lookups)]

\* a lookup of the descriptor returned a model index
FoundModel(h) == LastLookup(h).result.kind = "return" /\ LastLookup(h).result.value >= 0

FirstMissed(h) == IsMiss(h.lookups[1].result)

SecondMissed(h) == Len(h.lookups) = 2 /\ IsMiss(h.lookups[2].result)

ExpectedStdout ==
  Concat([i \in DOMAIN history |->
            IF FoundModel(history[i])
            THEN <<[line |-> history[i].line, m |-> LastLookup(history[i]).result.value]>>
            ELSE <<>>])

Warning(h) == IF FirstMissed(h) THEN <<[tag |-> "WARNING", line |-> h.line]>> ELSE <<>>

\* C5 (as stated): for every descriptor, in input order, exactly one line
\* `<line> <index>` is printed if a lookup found a model and none otherwise; a
\* miss of the first attempt is reported as [WARNING]; an [ERROR] is reported
\* only for a descriptor whose second attempt also missed.
C5_ErrorOnlyAfterSecondMiss ==
  /\ stdout = ExpectedStdout
  /\ stderr = Concat([i \in DOMAIN history |->
                        Warning(history[i])
                        \o IF SecondMissed(history[i])
                           THEN <<[tag |-> "ERROR", line |-> history[i].line]>>
                           ELSE <<>>])

\* C5 (amended): as above, but an [ERROR] is reported for exactly the
\* descriptors without an output line whose lookups all returned: the first
\* attempt missed, and either no second attempt was made (the descriptor has
\* no boundary flag) or the second attempt missed too.
C5_OutputAndDiagnostics ==
  /\ stdout = ExpectedStdout
  /\ stderr = Concat([i \in DOMAIN history |->
                        Warning(history[i])
                        \o IF /\ FirstMissed(history[i])
                              /\ \/ Len(history[i].lookups) = 1
                                 \/ SecondMissed(history[i])
                           THEN <<[tag |-> "ERROR", line |-> history[i].line]>>
                           ELSE <<>>])

\* two descriptors: the first is resolved by its retry, the second, without a
\* flag, misses and gets [WARNING] and [ERROR] after a single lookup
C5_Witness ==
  /\ Len(history) = 2
  /\ Len(history[1].lookups) = 2
  /\ FoundModel(history[1])
  /\ Len(history[2].lookups) = 1
  /\ FirstMissed(history[2])
  /\ history[2].line.i = "" /\ history[2].line.f = ""
  /\ Len(stdout) = 1
  /\ Len(stderr) = 3
  /\ stderr[3] = [tag |-> "ERROR", line |-> history[2].line]

\* C6: a log line `c_<s+1>.<n> -1={L} 0={c} 1={R}` of a non-CI phone c with L
\* and R all CI, and a descriptor `c{e+e}.<s>` whose left and right are the
\* empty-context phone (written as e or as #): the descriptor is resolved by
\* its first lookup and printed with the model index of the line, its symbol
\* table key minus 2.  (No other model of the log matches the lookup.)
C6_EmptyContextResolves ==
  \A i \in DOMAIN history : \A j \in DOMAIN log :
    LET d == history[i].line
        ln == log[j]
        q == Query(empty_context, d.center, empty_context, d.state)
    IN ( /\ ln.center = <<d.center>>
         /\ d.center \notin ci_phones
         /\ ln.name[2] = d.state + 1
         /\ ToSet(ln.left) \subseteq ci_phones
         /\ ToSet(ln.right) \subseteq ci_phones
         /\ d.left \in {empty_context, "#"} /\ d.right \in {empty_context, "#"}
         /\ d.i = "" /\ d.f = ""
         /\ Cardinality(MatchingModels(q)) = 1 )
       => /\ history[i].lookups = <<Lookup(q, Returned(ModelIndexOf(ln)))>>
          /\ \E k \in DOMAIN stdout :
               stdout[k] = [line |-> d, m |-> ModelIndexOf(ln)]

\* C6 holds of every log that stores no model under index -1
EmptyContextResolvesWithoutMinusOne == NoNegativeIndex => C6_EmptyContextResolves

(***************************************************************************)
(* Properties of pipeline A.                                               *)
(***************************************************************************)
\* two samples of the collection differ in a length getGlobalProperties reads
SamplesDiffer ==
  \E i, j \in DOMAIN samples.samples :
    \/ Len(samples.samples[i].sum) # Len(samples.samples[j].sum)
    \/ Len(samples.samples[i].left_context) # Len(samples.samples[j].left_context)
    \/ Len(samples.samples[i].right_context) # Len(samples.samples[j].right_context)

\* C7: the header `1 <dim> <num-left> <num-right>` Samples.write emits has dim
\* equal to the sum-vector length, and num-left / num-right equal to the left /
\* right context list length, of every sample written; when the samples differ
\* in one of these lengths, write raises before the file is opened or a byte
\* is written.
C7_HeaderMatchesSamples ==
  /\ samples_file.opened =>
       /\ Len(samples_file.lines) = 1 + Len(samples.samples)
       /\ samples_file.lines[1][1] = 1
       /\ \A i \in DOMAIN samples.samples :
            /\ samples_file.lines[i + 1] = SampleLine(samples.samples[i])
            /\ samples_file.lines[1][2] = Len(samples.samples[i].sum)
            /\ samples_file.lines[1][3] = Len(samples.samples[i].left_context)
            /\ samples_file.lines[1][4] = Len(samples.samples[i].right_context)
  /\ SamplesDiffer =>
       /\ ~samples_file.opened
       /\ samples_file.lines = <<>>
       /\ pcA \notin {"setInitialFinal", "done"}

\* write was called on two samples of different dimension, and raised
C7_Witness ==
  /\ pcA = "aborted in write"
  /\ Len(samples.samples) = 2
  /\ Len(samples.samples[1].sum) # Len(samples.samples[2].sum)
  /\ ~samples_file.opened

\* write has written two samples of dimension MaxDim
SamplesWritten ==
  /\ samples_file.opened
  /\ Len(samples.samples) = 2
  /\ samples_file.lines[1] = <<1, MaxDim, 1, 1>>

\* C8: in word-boundary mode the sample setExample builds has (initial, final)
\* = (true, false) for boundary begin-of-lemma, (false, true) for end-of-lemma,
\* (true, true) for single-phoneme-lemma and (false, false) for any other
\* value; with word-boundary mode off both flags are false.
C8_BoundaryFlags ==
  \A i \in DOMAIN samples.samples :
    LET b == examples[i].properties["boundary"]
        s == samples.samples[i]
    IN <<s.initial, s.final>> =
         IF ~opts.wordboundary THEN <<FALSE, FALSE>>
         ELSE CASE b = "begin-of-lemma" -> <<TRUE, FALSE>>
                [] b = "end-of-lemma" -> <<FALSE, TRUE>>
                [] b = "single-phoneme-lemma" -> <<TRUE, TRUE>>
                [] OTHER -> <<FALSE, FALSE>>

\* word-boundary mode: a single-phoneme-lemma sample, then a within-lemma one
C8_Witness ==
  /\ opts.wordboundary
  /\ Len(samples.samples) = 2
  /\ examples[1].properties["boundary"] = "single-phoneme-lemma"
  /\ samples.samples[1].initial /\ samples.samples[1].final
  /\ examples[2].properties["boundary"] = "within-lemma"
  /\ ~samples.samples[2].initial /\ ~samples.samples[2].final

\* the symbols of the phone symbol table
TableSymbols == {symbols.symbols_[k] : k \in DOMAIN symbols.symbols_}

WithMark(mark) == {x \in TableSymbols : Contains(x, mark)}

\* the places of main at which setSymbols has run
SetSymbolsDone ==
  pcA \in {"setUseWordBoundary", "convertContextSymbols", "write",
           "setInitialFinal", "done", "aborted in convertContextSymbols",
           "aborted in write"}

\* the places of main at which setUseWordBoundary has run too
SetUseWordBoundaryDone == SetSymbolsDone /\ pcA # "setUseWordBoundary"

\* the phone-class map sends each base phone (the text before the first @) to
\* exactly the symbols containing @ that have this base
PhoneClassesFromMarkers ==
  /\ DOMAIN converter.phone_classes =
       {BeforeFirst(x, "@") : x \in WithMark(<<"@">>)}
  /\ \A base \in DOMAIN converter.phone_classes :
       ToSet(converter.phone_classes[base]) =
         {x \in WithMark(<<"@">>) : BeforeFirst(x, "@") = base}

\* the table {a, a@i, a@f, b} of the spec
ExampleTable == TableSymbols = {Ph_a, Ph_a \o MarkI, Ph_a \o MarkF, Ph_b}

\* C9 (as stated): the initial-phone set of the SymbolConverter is exactly the
\* symbols containing @i, the final-phone set exactly those containing @f, and
\* the phone-class map groups the symbols containing @ by their base phone.
C9_PhoneSetsFromMarkers ==
  SetSymbolsDone =>
    /\ converter.initial_phones = WithMark(MarkI)
    /\ converter.final_phones = WithMark(MarkF)
    /\ PhoneClassesFromMarkers

\* C9 (amended): that holds between setSymbols and setUseWordBoundary; from
\* setUseWordBoundary on, the initial-phone set is the symbols containing @i
\* together with the context-independent phones of the option list, and the
\* final-phone set those containing @f together with the same phones.  For the
\* table {a, a@i, a@f, b} and the default list [si]: classes {a: [a@i, a@f]},
\* initial set {a@i, si}, final set {a@f, si}.
C9_PhoneSetsFromMarkersAndCi ==
  /\ pcA = "setUseWordBoundary" =>
       /\ converter.initial_phones = WithMark(MarkI)
       /\ converter.final_phones = WithMark(MarkF)
  /\ SetUseWordBoundaryDone =>
       /\ converter.initial_phones = WithMark(MarkI) \cup ToSet(opts.ci_phones)
       /\ converter.final_phones = WithMark(MarkF) \cup ToSet(opts.ci_phones)
  /\ SetSymbolsDone => PhoneClassesFromMarkers
  /\ (SetUseWordBoundaryDone /\ ExampleTable /\ opts.ci_phones = <<Ph_si>>) =>
       /\ converter.phone_classes = (Ph_a :> <<Ph_a \o MarkI, Ph_a \o MarkF>>)
       /\ converter.initial_phones = {Ph_a \o MarkI, Ph_si}
       /\ converter.final_phones = {Ph_a \o MarkF, Ph_si}

\* setUseWordBoundary has run on the table of the spec with the default list
C9_Witness ==
  /\ SetUseWordBoundaryDone
  /\ ExampleTable
  /\ opts.ci_phones = <<Ph_si>>
  /\ converter.initial_phones = {Ph_a \o MarkI, Ph_si}
  /\ converter.phone_classes = (Ph_a :> <<Ph_a \o MarkI, Ph_a \o MarkF>>)

QInitial == questions["is_initial"]

QFinal == questions["is_final"]

QWithin == ToSet(questions["is_within"])

\* the place of main at which the center questions are set
QuestionsSet == pcA = "done" /\ opts.wordboundary

\* C10 (as stated): is_initial, is_final and is_within are pairwise disjoint,
\* every phone of the symbol table is in exactly one of them, none of them
\* holds a phone outside the symbol table, and is_within is the inventory
\* minus the union of the initial and final phone sets.
C10_QuestionsPartition ==
  QuestionsSet =>
    /\ QInitial \cap QFinal = {}
    /\ QInitial \cap QWithin = {}
    /\ QFinal \cap QWithin = {}
    /\ TableSymbols \subseteq QInitial \cup QFinal \cup QWithin
    /\ QInitial \cup QFinal \cup QWithin \subseteq TableSymbols
    /\ QWithin = TableSymbols \ (converter.initial_phones \cup converter.final_phones)

\* C10 (amended): is_within is disjoint from is_initial and from is_final,
\* every phone of the symbol table is either in is_within or in is_initial or
\* is_final, is_within holds table phones only, and is_within is the inventory
\* minus the union of the initial and final phone sets.  is_initial and
\* is_final are the converter's sets: they share every context-independent
\* phone of the option list (and every symbol with both markers), and hold
\* table phones and those context-independent phones only.
C10_WithinIsComplement ==
  QuestionsSet =>
    /\ QInitial \cap QWithin = {}
    /\ QFinal \cap QWithin = {}
    /\ \A ph \in TableSymbols : ph \in QWithin <=> ph \notin QInitial \cup QFinal
    /\ QWithin \subseteq TableSymbols
    /\ QWithin = TableSymbols \ (converter.initial_phones \cup converter.final_phones)
    /\ QInitial = converter.initial_phones
    /\ QFinal = converter.final_phones
    /\ ToSet(opts.ci_phones) \subseteq QInitial \cap QFinal
    /\ WithMark(MarkI) \cap WithMark(MarkF) \subseteq QInitial \cap QFinal
    /\ QInitial \cup QFinal \subseteq TableSymbols \cup ToSet(opts.ci_phones)

\* the questions are set for a table without the context-independent phone si
C10_Witness ==
  /\ QuestionsSet
  /\ Ph_si \notin TableSymbols
  /\ Ph_si \in QInitial \cap QFinal
  /\ QWithin # {}
  /\ QInitial \ QFinal # {}

\* the phone of sample s is to be rewritten: word-boundary mode is on and the
\* phone is not in the context-independent exclusion set
Rewritten(s) == converter.use_word_boundary /\ s.phone \notin converter.non_wb

\* the old phone followed by @i if initial and by @f if final
MarkedPhone(s) ==
  s.phone \o (IF s.initial THEN MarkI ELSE <<>>)
          \o (IF s.final THEN MarkF ELSE <<>>)

\* a context list with every key of the mapping replaced by its image
MappedContext(ctx) ==
  [i \in DOMAIN ctx |->
     IF ctx[i] \in DOMAIN converter.mapping
     THEN converter.mapping[ctx[i]] ELSE ctx[i]]

\* the samples whose rewritten phone is not in the symbol table
Unknown(ss) ==
  {i \in DOMAIN ss : Rewritten(ss[i]) /\ MarkedPhone(ss[i]) \notin TableSymbols}

\* C11: convertContextSymbols changes a sample's phone only when word-boundary
\* mode is on and the phone is not in the context-independent exclusion set:
\* the phone becomes the old phone followed by @i if initial and by @f if
\* final, and conversion aborts unless that symbol is in the symbol table; in
\* every other case the phone is unchanged.  Every left / right context symbol
\* that is a key of the mapping is replaced by its image, every other one is
\* unchanged, the context lists keep their lengths, and nothing else of a
\* sample changes.  (Of a conversion that aborts, this is said of the samples
\* before the one it aborts on.)
C11_ConvertContextSymbols ==
  [][pcA = "convertContextSymbols" =>
       LET old == samples.samples
           new == samples'.samples
       IN /\ Len(new) = Len(old)
          /\ (pcA' = "aborted in convertContextSymbols") <=> (Unknown(old) # {})
          /\ (pcA' = "write") <=> (Unknown(old) = {})
          /\ \A i \in DOMAIN old :
               (\A j \in Unknown(old) : i < j) =>
                 /\ new[i].phone = IF Rewritten(old[i]) THEN MarkedPhone(old[i])
                                   ELSE old[i].phone
                 /\ Len(new[i].left_context) = Len(old[i].left_context)
                 /\ Len(new[i].right_context) = Len(old[i].right_context)
                 /\ new[i].left_context = MappedContext(old[i].left_context)
                 /\ new[i].right_context = MappedContext(old[i].right_context)
                 /\ new[i] = [old[i] EXCEPT !.phone = new[i].phone,
                                            !.left_context = new[i].left_context,
                                            !.right_context = new[i].right_context]
  ]_vars

\* word-boundary mode: a single-phoneme a became a@i@f and its left context #
\* became si; the context-independent si kept its phone and its left context b
C11_Witness ==
  /\ pcA = "write"
  /\ converter.use_word_boundary
  /\ Len(samples.samples) = 2
  /\ examples[1].properties["central"] = Ph_a
  /\ examples[1].properties["history[0]"] = Ph_hash
  /\ samples.samples[1].phone = Ph_a \o MarkI \o MarkF
  /\ samples.samples[1].left_context = <<Ph_si>>
  /\ examples[2].properties["central"] = Ph_si
  /\ examples[2].properties["boundary"] = "begin-of-lemma"
  /\ samples.samples[2].phone = Ph_si
  /\ samples.samples[2].left_context = <<Ph_b>>

\* conversion aborted on a sample whose marked phone is not in the table; its
\* phone is already rewritten, its contexts are not yet mapped
ConversionAborted ==
  /\ pcA = "aborted in convertContextSymbols"
  /\ Len(samples.samples) = 2
  /\ samples.samples[1].left_context = <<Ph_si>>
  /\ samples.samples[2].phone = Ph_a \o MarkF
  /\ samples.samples[2].phone \notin TableSymbols
  /\ samples.samples[2].left_context = <<Ph_hash>>

\* C12: every model index _addModel stores (the symbol-table key of the state
\* name minus 2) is non-negative, for every state name that passes its `> 0`
\* assertion; so a -1 returned by find always means that no model matched and
\* never denotes a stored model.
C12_MinusOneMeansNoMatch ==
  /\ \A g \in DOMAIN models_ : \A m \in DOMAIN models_[g] : m >= 0
  /\ \A lk \in AllLookups :
       (lk.result.kind = "return" /\ lk.result.value = -1) =>
         MatchingModels(lk.query) = {}

====
